---- MODULE Spec2Model ----
(***************************************************************************)
(* TechSupportChatbot (src/Chatbot for FAQs/faq_chatbot.py).               *)
(*                                                                         *)
(* A text is a sequence of words (what str.split() yields); a word is a    *)
(* string.  Scores are cosine similarities in hundredths (0 .. 100),       *)
(* polarities are in hundredths (-100 .. 100), so 0.3 is 30 and 0.99 is 99.*)
(* The library calls (str.lower, word_tokenize, WordNetLemmatizer,         *)
(* TfidfVectorizer, cosine_similarity, np.argsort, deque) are modelled by  *)
(* what they do on the words of the model's vocabulary.                    *)
(***************************************************************************)
EXTENDS Integers, Sequences, FiniteSets, TLC

VARIABLES
    constructed,            \* "none" | "ok" | "error": outcome of __init__
    max_history,            \* the argument of __init__
    fit_input,              \* the texts handed to vectorizer.fit_transform
    conversation_history,   \* self.conversation_history, oldest first
    clock,                  \* datetime.now(): ticks at every log_conversation
    logged,                 \* every record log_conversation was called with
    running,                \* the chat loop has not hit 'quit'
    turns,                  \* inputs read by the chat loop so far
    last_input,             \* the input of the last chat turn
    last_polarity,          \* its polarity (TextBlob)
    printed,                \* the text the bot printed in the last turn
    user_question,          \* get_response: its argument
    threshold,              \* get_response: its argument
    top_n,                  \* get_response: its argument
    similarities,           \* get_response: the similarity array
    top_indices,            \* get_response: np.argsort(...)[-top_n:][::-1]
    responses,              \* get_response: the returned list
    text,                   \* preprocess_text: its argument
    once,                   \* preprocess_text(text)
    twice,                  \* preprocess_text(preprocess_text(text))
    polarity,               \* analyze_sentiment: the polarity of its argument
    tone,                   \* analyze_sentiment: the returned tone
    pc,                     \* where the run of a single function stands
    translator              \* LanguageTranslator.translate: its locals and result

vars == <<constructed, max_history, fit_input, conversation_history, clock, logged,
          running, turns, last_input, last_polarity, printed,
          user_question, threshold, top_n, similarities, top_indices,
          responses, text, once, twice, polarity, tone, pc, translator>>

chatVars == <<constructed, max_history, fit_input, conversation_history, clock, logged,
              running, turns, last_input, last_polarity, printed>>
respVars == <<user_question, threshold, top_n, similarities, top_indices,
              responses>>
normVars == <<text, once, twice>>
toneVars == <<polarity, tone>>

----------------------------------------------------------------------------
(* Bounds of the model.                                                    *)

MaxCap == 2         \* __init__ is tried with max_history in -1 .. MaxCap
MaxTurns == 3       \* inputs the chat loop reads
MaxTopN == 4        \* get_response is tried with top_n in 0 .. MaxTopN
MaxTextLen == 3     \* words in a text given to preprocess_text

----------------------------------------------------------------------------
(* Helpers on sequences.                                                   *)

RECURSIVE Concat(_)
Concat(ss) == IF ss = <<>> THEN <<>> ELSE Head(ss) \o Concat(Tail(ss))

Range(s) == {s[i] : i \in 1..Len(s)}

Min(a, b) == IF a <= b THEN a ELSE b

RECURSIVE SumOver(_, _)
SumOver(f, S) ==
    IF S = {} THEN 0
    ELSE LET x == CHOOSE y \in S : TRUE IN f[x] + SumOver(f, S \ {x})

----------------------------------------------------------------------------
(* The catalog: three of the FAQ questions, by position.                   *)

questions ==
    << <<"How", "do", "I", "reset", "my", "WiFi", "password?">>,
       <<"How", "do", "I", "create", "strong", "passwords?">>,
       <<"Computer", "makes", "strange", "noises">> >>

NumDocs == Len(questions)

answers == [i \in 1..NumDocs |-> i]

----------------------------------------------------------------------------
(* preprocess_text and the library calls it makes.                         *)

\* str.lower() on one word
Lower(w) ==
    CASE w = "How" -> "how"
      [] w = "I" -> "i"
      [] w = "WiFi" -> "wifi"
      [] w = "Computer" -> "computer"
      [] w = "DOS" -> "dos"
      [] w = "Quit" -> "quit"
      [] w = "History" -> "history"
      [] OTHER -> w

\* self.tech_terms: the keys are lower case, the values a display form
tech_terms == [w \in {"wifi"} |-> "WiFi"]

\* word_tokenize on one word: punctuation is split off as its own token
Tokenize(w) ==
    CASE w = "password?" -> <<"password", "?">>
      [] w = "passwords?" -> <<"passwords", "?">>
      [] OTHER -> <<w>>

\* stopwords.words('english'), restricted to the model's words
stop_words == {"how", "do", "i", "my", "the", "a", "an"}

\* str.isalnum()
IsAlnum(tok) == tok # "?"

\* WordNetLemmatizer.lemmatize(token): the shortest noun lemma WordNet knows
\* for the token ("dos" has the noun forms "dos" and "do"), else the token
lemmatize(tok) ==
    CASE tok = "passwords" -> "password"
      [] tok = "makes" -> "make"
      [] tok = "noises" -> "noise"
      [] tok = "dos" -> "do"
      [] OTHER -> tok

ReplaceTerm(w) == IF w \in DOMAIN tech_terms THEN tech_terms[w] ELSE w

KeepToken(tok) == tok \notin stop_words /\ IsAlnum(tok)

preprocess_text(t) ==
    LET words == [i \in 1..Len(t) |-> Lower(t[i])]
        processed_words == [i \in 1..Len(words) |-> ReplaceTerm(words[i])]
        tokens == Concat([i \in 1..Len(processed_words) |->
                             Tokenize(Lower(processed_words[i]))])
        kept == SelectSeq(tokens, KeepToken)
    IN  [i \in 1..Len(kept) |-> lemmatize(kept[i])]

----------------------------------------------------------------------------
(* TfidfVectorizer (defaults: lowercase, tokens of two or more word        *)
(* characters, smooth idf, l2 norm) and cosine_similarity.                 *)

\* the analyzer on one lower-cased word: punctuation and one-letter tokens go
VecTokenize(w) ==
    CASE w = "password?" -> <<"password">>
      [] w = "passwords?" -> <<"passwords">>
      [] w \in {"i", "a", "?"} -> <<>>
      [] OTHER -> <<w>>

VecTokens(t) == Concat([i \in 1..Len(t) |-> VecTokenize(Lower(t[i]))])

\* the texts __init__ hands to fit_transform: self.questions as they are
FitDocs == questions

\* vocabulary_ after fit
vocabulary == UNION {Range(VecTokens(FitDocs[i])) : i \in 1..Len(FitDocs)}

DocFreq(term) ==
    Cardinality({i \in 1..Len(FitDocs) : term \in Range(VecTokens(FitDocs[i]))})

\* ln((1 + n) / (1 + df)) + 1 in tenths: ln 2 = 0.69, ln 4/3 = 0.29, ln 1 = 0
IdfTenths(n, df) ==
    CASE 1 + n = 2 * (1 + df) -> 17
      [] 3 * (1 + n) = 4 * (1 + df) -> 13
      [] 1 + n = 1 + df -> 10

\* idf_ after fit
idf == [term \in vocabulary |-> IdfTenths(Len(FitDocs), DocFreq(term))]

TermCount(toks, term) == Cardinality({i \in 1..Len(toks) : toks[i] = term})

\* transform([t]) before the l2 norm: tf * idf over the fitted vocabulary;
\* a token outside the vocabulary has no column
Tfidf(t) == [term \in vocabulary |-> TermCount(VecTokens(t), term) * idf[term]]

Dot(u, v) == SumOver([term \in DOMAIN u |-> u[term] * v[term]], DOMAIN u)

RECURSIVE SqrtBetween(_, _, _)
SqrtBetween(lo, hi, x) ==
    IF hi - lo <= 1 THEN lo
    ELSE LET mid == (lo + hi) \div 2
         IN  IF mid * mid <= x THEN SqrtBetween(mid, hi, x)
             ELSE SqrtBetween(lo, mid, x)

\* the integer part of the square root, for 0 <= x < 2^30
ISqrt(x) == SqrtBetween(0, 32768, x)

\* cosine_similarity of two rows, in hundredths (rounded down, the norm
\* product rounded down first); a zero row gives 0
Cosine(u, v) ==
    LET uu == Dot(u, u)
        vv == Dot(v, v)
    IN  IF uu = 0 \/ vv = 0 THEN 0
        ELSE (100 * Dot(u, v)) \div ISqrt(uu * vv)

\* self.question_vectors = self.vectorizer.fit_transform(self.questions)
question_vectors == [i \in 1..Len(FitDocs) |-> Tfidf(FitDocs[i])]

\* cosine_similarity(question_vector, self.question_vectors)[0]
Similarities(q) ==
    LET question_vector == Tfidf(preprocess_text(q))
    IN  [i \in 1..Len(FitDocs) |-> Cosine(question_vector, question_vectors[i])]

----------------------------------------------------------------------------
(* analyze_sentiment: the buckets of TextBlob's polarity.                  *)

\* a bug: the boundary -0.5 falls in the next bucket
analyze_sentiment_strict(p) ==
    IF p < -50 THEN "very_negative"
    ELSE IF p < 0 THEN "negative"
    ELSE IF p <= 30 THEN "neutral"
    ELSE "positive"

analyze_sentiment(p) ==
    IF p <= -50 THEN "very_negative"
    ELSE IF p < 0 THEN "negative"
    ELSE IF p <= 30 THEN "neutral"
    ELSE "positive"

Tones == {"very_negative", "negative", "neutral", "positive"}

\* len(self.sentiment_responses[tone]) for every tone
NumTemplates == 3

----------------------------------------------------------------------------
(* get_response: ranking and thresholding.                                 *)

Perms(n) == {p \in [1..n -> 1..n] : \A i, j \in 1..n : i # j => p[i] # p[j]}

\* what np.argsort(sim) may return: quicksort is not stable, so any
\* permutation that puts the scores in ascending order
ArgSorts(sim) ==
    {p \in Perms(Len(sim)) : \A i \in 1..(Len(sim) - 1) : sim[p[i]] <= sim[p[i + 1]]}

Reverse(s) == [i \in 1..Len(s) |-> s[Len(s) + 1 - i]]

\* s[-n:] for n >= 0: the last n items, and all of s when n = 0 or n > len(s)
LastN(s, n) ==
    IF n = 0 \/ n >= Len(s) THEN s ELSE SubSeq(s, Len(s) - n + 1, Len(s))

\* np.argsort(similarities)[-top_n:][::-1], given the argsort
TopIndices(sorted, n) == Reverse(LastN(sorted, n))

\* self.follow_ups.get(answer, []): only the first answer names a topic
FollowUps(answer) == IF answer = 1 THEN "network" ELSE "none"

\* a bug: a score equal to the threshold is dropped
ScorePassesStrict(score, th) == score > th

ScorePasses(score, th) == score >= th

\* the loop over top_indices
RECURSIVE Collect(_, _, _, _)
Collect(idxs, sim, th, template) ==
    IF idxs = <<>> THEN <<>>
    ELSE LET idx == Head(idxs)
             score == sim[idx]
             rest == Collect(Tail(idxs), sim, th, template)
         IN  IF ScorePasses(score, th)
             THEN << [answer |-> answers[idx], template |-> template,
                      score |-> score, follow_ups |-> FollowUps(answers[idx])] >>
                  \o rest
             ELSE rest

\* a bug: entries that score 0 are never returned
RankAndFilterSkipZero(sim, th, n, sorted, template) ==
    Collect(SelectSeq(TopIndices(sorted, n), LAMBDA i : sim[i] > 0), sim, th, template)

\* lines 336-347 of get_response, given the similarity array and the argsort
RankAndFilter(sim, th, n, sorted, template) ==
    Collect(TopIndices(sorted, n), sim, th, template)

----------------------------------------------------------------------------
(* The conversation history: deque(maxlen = max_history).                  *)

\* a bug: a full deque drops the record it is given
DequeAppendDropNewest(hist, cap, rec) ==
    IF Len(hist) >= cap THEN hist ELSE hist \o <<rec>>

\* deque.append on a deque of capacity cap: a full deque drops its oldest
DequeAppend(hist, cap, rec) ==
    IF cap = 0 THEN <<>>
    ELSE IF Len(hist) >= cap THEN Tail(hist) \o <<rec>>
    ELSE hist \o <<rec>>

Record(now, user_input, bot_response, confidence, sentiment) ==
    [timestamp |-> now, user_input |-> user_input, bot_response |-> bot_response,
     confidence |-> confidence, sentiment |-> sentiment]

log_conversation(hist, cap, rec) == DequeAppend(hist, cap, rec)

FallbackText == "no specific information"

\* the record chat() logs for the first response: its text, its score and
\* the tone analyze_sentiment gives the input
BestRecord(now, user_input, best, detected) ==
    Record(now, user_input, [answer |-> best.answer, template |-> best.template],
           best.score, detected)

\* a bug: the fallback is logged with the tone detected for the input
FallbackRecordWithTone(now, user_input, detected) ==
    Record(now, user_input, FallbackText, 0, detected)

\* the record chat() logs when get_response returned nothing, whatever tone
\* was detected
FallbackRecord(now, user_input, detected) ==
    Record(now, user_input, FallbackText, 0, "neutral")

\* threshold = 0.3 and top_n = 3, the defaults chat() calls get_response with
DefaultThreshold == 30
DefaultTopN == 3

----------------------------------------------------------------------------
(* Inputs.                                                                 *)

StopWordQuery == <<"the", "a", "an">>

ChatInputs ==
    { questions[2], StopWordQuery,
      <<"Quit">>, <<"history">> }

ChatPolarities == {-50, 31}

Queries ==
    { questions[i] : i \in 1..NumDocs }
    \cup { preprocess_text(questions[i]) : i \in 1..NumDocs }
    \cup { StopWordQuery, <<>>, <<"DOS">> }

\* the similarity array of every input of the model, computed once
SimilarityTable == [q \in Queries \cup ChatInputs |-> Similarities(q)]

Thresholds == {-10, 0, 30, 60, 101}

Scores == {0, 30, 60, 100}

Polarities == -100..100

NormWords == {"the", "do", "dos", "DOS", "passwords?", "password", "WiFi", "?"}

RECURSIVE TextsOfLen(_)
TextsOfLen(n) ==
    IF n = 0 THEN {<<>>}
    ELSE {Append(t, w) : t \in TextsOfLen(n - 1), w \in NormWords}

Texts == UNION {TextsOfLen(n) : n \in 0..MaxTextLen}

\* a bug: the command is compared without lower()
IsCommandCaseSensitive(u, word) == Len(u) = 1 /\ u[1] = word

IsCommand(u, word) == Len(u) = 1 /\ Lower(u[1]) = word

----------------------------------------------------------------------------
(* LanguageTranslator (src/Language Translation Tool/translator.py).       *)
(* A reply is what requests.post gives back: it raises, or it is a         *)
(* response with a status code and a body; the body is no JSON, a JSON     *)
(* object (with or without "error" and "estimated_time") or a JSON list    *)
(* whose first item carries translation_text.  Times are in seconds.       *)

\* self.max_retries
max_retries == 5

\* the cap on one wait: min(wait_time, 30)
MaxWait == 30

Reply(raises, status_code, json, error, has_estimate, estimated_time, translation_text) ==
    [raises |-> raises, status_code |-> status_code, json |-> json, error |-> error,
     has_estimate |-> has_estimate, estimated_time |-> estimated_time,
     translation_text |-> translation_text]

LoadingReply(e) == Reply(FALSE, 503, "object", "is currently loading", TRUE, e, "")

Replies ==
    { LoadingReply(e) : e \in {-1, 0, 20, 45} }
    \cup { Reply(TRUE, 0, "none", "none", FALSE, 0, ""),
           Reply(FALSE, 200, "list", "none", FALSE, 0, "hola"),
           Reply(FALSE, 200, "list", "none", FALSE, 0, ""),
           Reply(FALSE, 200, "empty list", "none", FALSE, 0, ""),
           Reply(FALSE, 200, "none", "none", FALSE, 0, ""),
           Reply(FALSE, 503, "object", "is currently loading", FALSE, 0, ""),
           Reply(FALSE, 404, "object", "not found", FALSE, 0, ""),
           Reply(FALSE, 500, "none", "none", FALSE, 0, "") }

\* wait_for_model: <<is_loading, wait_time>>; a body that is no JSON raises
\* inside the try and gives (False, 0)
wait_for_model(response) ==
    IF /\ response.json = "object"
       /\ response.error # "none" /\ response.has_estimate
       /\ response.error = "is currently loading"
    THEN <<TRUE, response.estimated_time>>
    ELSE <<FALSE, 0>>

\* a bug: the wait is not capped
SleepTimeUncapped(wait_time) == wait_time

\* wait_time = min(wait_time, 30)
SleepTime(wait_time) == Min(wait_time, MaxWait)

\* time.sleep raises ValueError on a negative length
SleepRaises(wait_time) == wait_time < 0

TranslatedResult(translated_text) ==
    [translated_text |-> translated_text, source_lang |-> "en", target_lang |-> "es"]

ErrorResult(message) == [error |-> message]

Pending == [pending |-> TRUE]

TranslatorIdle ==
    [pc |-> "idle", retry_count |-> 0, replies |-> <<>>, sleeps |-> <<>>,
     result |-> Pending]

\* translate() after retry_count = 0
TranslatorStarted == [TranslatorIdle EXCEPT !.pc = "loop"]

Returned(t, response, result) ==
    [t EXCEPT !.pc = "done", !.replies = Append(@, response), !.result = result]

\* lines 93-104: the reply is not a loading notice
Answer(response) ==
    IF response.status_code = 200
    THEN IF response.json = "none"
         THEN ErrorResult("Translation failed")
         ELSE IF response.json = "list" /\ response.translation_text # ""
              THEN TranslatedResult(response.translation_text)
              ELSE ErrorResult("API request failed")
    ELSE ErrorResult("API request failed")

\* one pass of the while loop on the reply to its request, with the loop
\* test that follows a retry
TranslatePass(t, response) ==
    IF response.raises
    THEN Returned(t, response, ErrorResult("Translation failed"))
    ELSE LET loading == wait_for_model(response)
             wait_time == SleepTime(loading[2])
         IN  IF loading[1]
             THEN IF SleepRaises(wait_time)
                  THEN Returned(t, response, ErrorResult("Translation failed"))
                  ELSE LET retried ==
                               [t EXCEPT !.retry_count = @ + 1,
                                         !.replies = Append(@, response),
                                         !.sleeps = Append(@, wait_time)]
                       IN  IF retried.retry_count < max_retries
                           THEN retried
                           ELSE [retried EXCEPT
                                    !.pc = "done",
                                    !.result = ErrorResult("Maximum retries reached")]
             ELSE Returned(t, response, Answer(response))

----------------------------------------------------------------------------
(* The program: __init__, then chat().                                     *)

NoCall ==
    /\ user_question = <<>> /\ threshold = DefaultThreshold /\ top_n = DefaultTopN
    /\ similarities = <<>> /\ top_indices = <<>> /\ responses = <<>>
    /\ text = <<>> /\ once = <<>> /\ twice = <<>>
    /\ polarity = 0 /\ tone = "unset"

Init ==
    /\ constructed = "none" /\ max_history = 0 /\ fit_input = <<>>
    /\ conversation_history = <<>> /\ clock = 0 /\ logged = <<>>
    /\ running = FALSE /\ turns = 0
    /\ last_input = <<>> /\ last_polarity = 0 /\ printed = "none"
    /\ pc = "chat"
    /\ NoCall
    /\ translator = TranslatorIdle

\* TechSupportChatbot(max_history = mh); chat() starts right after
Construct(mh) ==
    /\ constructed = "none"
    /\ fit_input' = FitDocs
    /\ IF mh < 0
       THEN /\ constructed' = "error"
            /\ UNCHANGED <<max_history, running>>
       ELSE /\ constructed' = "ok"
            /\ max_history' = mh
            /\ running' = TRUE
    /\ conversation_history' = <<>>
    /\ UNCHANGED <<clock, logged, turns, last_input, last_polarity, printed>>
    /\ UNCHANGED <<translator, respVars, normVars, toneVars, pc>>

ChatGuard == constructed = "ok" /\ running /\ turns < MaxTurns

ChatQuit(u) ==
    /\ ChatGuard
    /\ IsCommand(u, "quit")
    /\ running' = FALSE
    /\ turns' = turns + 1
    /\ last_input' = u
    /\ printed' = "goodbye"
    /\ UNCHANGED <<constructed, max_history, fit_input, conversation_history,
                   clock, logged, last_polarity>>
    /\ UNCHANGED <<translator, respVars, normVars, toneVars, pc>>

ChatHistory(u) ==
    /\ ChatGuard
    /\ ~IsCommand(u, "quit")
    /\ IsCommand(u, "history")
    /\ turns' = turns + 1
    /\ last_input' = u
    /\ printed' = "history"
    /\ UNCHANGED <<constructed, max_history, fit_input, conversation_history,
                   clock, logged, running, last_polarity>>
    /\ UNCHANGED <<translator, respVars, normVars, toneVars, pc>>

\* one pass of the loop body for an input that is not a command
ChatTurn(u, p, k, sorted) ==
    /\ ChatGuard
    /\ ~IsCommand(u, "quit") /\ ~IsCommand(u, "history")
    /\ sorted \in ArgSorts(SimilarityTable[u])
    /\ user_question' = u
    /\ threshold' = DefaultThreshold
    /\ top_n' = DefaultTopN
    /\ similarities' = SimilarityTable[u]
    /\ top_indices' = TopIndices(sorted, DefaultTopN)
    /\ responses' = RankAndFilter(SimilarityTable[u], DefaultThreshold, DefaultTopN,
                                  sorted, <<analyze_sentiment(p), k>>)
    /\ LET rec == IF responses' # <<>>
                  THEN BestRecord(clock, u, responses'[1], analyze_sentiment(p))
                  ELSE FallbackRecord(clock, u, analyze_sentiment(p))
       IN  /\ printed' = rec.bot_response
           /\ conversation_history' = log_conversation(conversation_history, max_history, rec)
           /\ logged' = Append(logged, rec)
    /\ clock' = clock + 1
    /\ turns' = turns + 1
    /\ last_input' = u
    /\ last_polarity' = p
    /\ UNCHANGED <<constructed, max_history, fit_input, running>>
    /\ UNCHANGED <<translator, normVars, toneVars, pc>>

Next ==
    \/ \E mh \in -1..MaxCap : Construct(mh)
    \/ \E u \in ChatInputs : ChatQuit(u)
    \/ \E u \in ChatInputs : ChatHistory(u)
    \/ \E u \in ChatInputs : \E sorted \in ArgSorts(SimilarityTable[u]) :
          \E p \in ChatPolarities, k \in 1..NumTemplates : ChatTurn(u, p, k, sorted)

Spec == Init /\ [][Next]_vars

----------------------------------------------------------------------------
(* get_response called on a constructed chatbot with any arguments.        *)

Constructed ==
    /\ constructed = "ok" /\ max_history = 10 /\ fit_input = FitDocs
    /\ conversation_history = <<>> /\ clock = 0 /\ logged = <<>>
    /\ running = FALSE /\ turns = 0
    /\ last_input = <<>> /\ last_polarity = 0 /\ printed = "none"
    /\ translator = TranslatorIdle

InitResp == Constructed /\ pc = "get_response" /\ NoCall

GetResponse(q, p, th, n, k, sorted) ==
    /\ constructed = "ok"
    /\ pc = "get_response"
    /\ sorted \in ArgSorts(SimilarityTable[q])
    /\ polarity' = p
    /\ tone' = analyze_sentiment(p)
    /\ user_question' = q
    /\ threshold' = th
    /\ top_n' = n
    /\ similarities' = SimilarityTable[q]
    /\ top_indices' = TopIndices(sorted, n)
    /\ responses' = RankAndFilter(SimilarityTable[q], th, n, sorted,
                                  <<analyze_sentiment(p), k>>)
    /\ pc' = "responded"
    /\ UNCHANGED <<translator, chatVars, normVars>>

NextResp ==
    \E q \in Queries : \E sorted \in ArgSorts(SimilarityTable[q]) :
        \E p \in ChatPolarities, th \in Thresholds, n \in 0..MaxTopN,
           k \in 1..NumTemplates : GetResponse(q, p, th, n, k, sorted)

SpecResp == InitResp /\ [][NextResp]_vars

----------------------------------------------------------------------------
(* Lines 336-347 of get_response on any similarity array.                  *)

InitRank ==
    /\ Constructed /\ pc = "rank"
    /\ user_question = <<>> /\ top_indices = <<>> /\ responses = <<>>
    /\ similarities \in [1..NumDocs -> Scores]
    /\ threshold \in Thresholds
    /\ top_n \in 0..MaxTopN
    /\ text = <<>> /\ once = <<>> /\ twice = <<>>
    /\ polarity \in ChatPolarities /\ tone = analyze_sentiment(polarity)

Rank(k, sorted) ==
    /\ pc = "rank"
    /\ sorted \in ArgSorts(similarities)
    /\ top_indices' = TopIndices(sorted, top_n)
    /\ responses' = RankAndFilter(similarities, threshold, top_n, sorted, <<tone, k>>)
    /\ pc' = "ranked"
    /\ UNCHANGED <<translator, chatVars, normVars, toneVars,
                   user_question, threshold, top_n, similarities>>

NextRank ==
    \E sorted \in ArgSorts(similarities), k \in 1..NumTemplates : Rank(k, sorted)

SpecRank == InitRank /\ [][NextRank]_vars

----------------------------------------------------------------------------
(* preprocess_text applied once, then again to its own result.             *)

InitNorm ==
    /\ Constructed /\ pc = "text"
    /\ user_question = <<>> /\ threshold = DefaultThreshold /\ top_n = DefaultTopN
    /\ similarities = <<>> /\ top_indices = <<>> /\ responses = <<>>
    /\ text \in Texts /\ once = <<>> /\ twice = <<>>
    /\ polarity = 0 /\ tone = "unset"

Preprocess ==
    /\ pc = "text"
    /\ once' = preprocess_text(text)
    /\ pc' = "once"
    /\ UNCHANGED <<translator, chatVars, respVars, toneVars, text, twice>>

PreprocessAgain ==
    /\ pc = "once"
    /\ twice' = preprocess_text(once)
    /\ pc' = "twice"
    /\ UNCHANGED <<translator, chatVars, respVars, toneVars, text, once>>

NextNorm == Preprocess \/ PreprocessAgain

SpecNorm == InitNorm /\ [][NextNorm]_vars

----------------------------------------------------------------------------
(* analyze_sentiment on every polarity TextBlob can report.                *)

InitTone ==
    /\ Constructed /\ pc = "polarity"
    /\ user_question = <<>> /\ threshold = DefaultThreshold /\ top_n = DefaultTopN
    /\ similarities = <<>> /\ top_indices = <<>> /\ responses = <<>>
    /\ text = <<>> /\ once = <<>> /\ twice = <<>>
    /\ polarity \in Polarities /\ tone = "unset"

AnalyzeSentiment ==
    /\ pc = "polarity"
    /\ tone' = analyze_sentiment(polarity)
    /\ pc' = "tone"
    /\ UNCHANGED <<translator, chatVars, respVars, normVars, polarity>>

NextTone == AnalyzeSentiment

SpecTone == InitTone /\ [][NextTone]_vars

----------------------------------------------------------------------------
(* translate() against any sequence of replies.                            *)

InitTranslate ==
    /\ constructed = "none" /\ max_history = 0 /\ fit_input = <<>>
    /\ conversation_history = <<>> /\ clock = 0 /\ logged = <<>>
    /\ running = FALSE /\ turns = 0
    /\ last_input = <<>> /\ last_polarity = 0 /\ printed = "none"
    /\ pc = "translate"
    /\ NoCall
    /\ translator = TranslatorStarted

Translate(response) ==
    /\ pc = "translate"
    /\ translator.pc = "loop"
    /\ translator.retry_count < max_retries
    /\ translator' = TranslatePass(translator, response)
    /\ UNCHANGED <<chatVars, respVars, normVars, toneVars, pc>>

NextTranslate == \E response \in Replies : Translate(response)

SpecTranslate == InitTranslate /\ [][NextTranslate]_vars

----------------------------------------------------------------------------
(* Claims.                                                                 *)

\* C1: with max_history > 0 the history holds the last max_history records
\* log_conversation was called with, oldest first (all of them while fewer
\* than max_history were logged), and it never holds more than max_history.
C1_HistoryEviction ==
    /\ Len(conversation_history) <= max_history
    /\ (constructed = "ok" /\ max_history > 0) =>
          /\ Len(conversation_history) = Min(Len(logged), max_history)
          /\ \A j \in 1..Len(conversation_history) :
                conversation_history[j] =
                    logged[Len(logged) - Len(conversation_history) + j]

\* C1 witness: max_history + k records were logged, k >= 1, and the history
\* is full
C1_Witness ==
    /\ constructed = "ok" /\ max_history = 2
    /\ Len(logged) = max_history + 1
    /\ Len(conversation_history) = max_history
    /\ conversation_history[1] = logged[2]

\* C4: the texts given to the vectorizer at build time are the normalized
\* catalog questions, preprocess_text(questions[i]) for every i.
C4_SameNormalizationAtBuild ==
    constructed = "ok" =>
        fit_input = [i \in 1..NumDocs |-> preprocess_text(questions[i])]

\* C5: a chatbot is never constructed with max_history <= 0.
C5_NoCapacityZero == constructed = "ok" => max_history > 0

\* C7: a chat turn on an input that is not a command logs exactly one record:
\* with no candidate the fixed fallback text, confidence 0.0 and tone neutral;
\* with candidates the first candidate's text and score, which is >= 0.3.
\* The history holds that record last whenever max_history > 0.
C7_ChatLogsFallbackOrBest ==
    [][ (turns' = turns + 1 /\ ~IsCommand(last_input', "quit")
                            /\ ~IsCommand(last_input', "history")) =>
          /\ Len(logged') = Len(logged) + 1
          /\ SubSeq(logged', 1, Len(logged)) = logged
          /\ LET rec == logged'[Len(logged')]
             IN  /\ rec.user_input = last_input'
                 /\ printed' = rec.bot_response
                 /\ max_history > 0 =>
                       conversation_history'[Len(conversation_history')] = rec
                 /\ IF responses' = <<>>
                    THEN /\ rec.bot_response = FallbackText
                         /\ rec.confidence = 0
                         /\ rec.sentiment = "neutral"
                    ELSE /\ rec.bot_response.answer = responses'[1].answer
                         /\ rec.bot_response.template = responses'[1].template
                         /\ rec.confidence = responses'[1].score
                         /\ rec.confidence >= DefaultThreshold
                         /\ rec.sentiment = analyze_sentiment(last_polarity')
      ]_vars

\* C7 witness: a fallback turn on an input whose tone is not neutral, after a
\* turn that had a candidate
C7_Witness ==
    /\ Len(logged) = 2
    /\ logged[1].confidence >= DefaultThreshold
    /\ logged[2].bot_response = FallbackText
    /\ logged[2].sentiment = "neutral"
    /\ analyze_sentiment(last_polarity) = "very_negative"
    /\ responses = <<>>

\* score-descending order with ties broken by the smaller catalog index
RanksBefore(sim, i, j) == sim[i] > sim[j] \/ (sim[i] = sim[j] /\ i < j)

\* C2: the candidates are the top_n highest-scoring entries in descending
\* score order, and of two entries with equal score the one with the smaller
\* catalog index comes first.
C2_TopNTiesByIndex ==
    (pc = "ranked" /\ top_n >= 1) =>
        /\ Len(top_indices) = Min(top_n, NumDocs)
        /\ \A a, b \in 1..Len(top_indices) :
              a < b => RanksBefore(similarities, top_indices[a], top_indices[b])
        /\ \A a \in 1..Len(top_indices) : \A i \in 1..NumDocs \ Range(top_indices) :
              RanksBefore(similarities, top_indices[a], i)

\* the query vector has zero magnitude: no token of the normalized query is
\* in the vocabulary
ZeroMagnitude(q) ==
    LET question_vector == Tfidf(preprocess_text(q))
    IN  Dot(question_vector, question_vector) = 0

\* C3 as claimed: a zero-magnitude query gets an empty result for every
\* threshold, threshold <= 0 included.
C3_ZeroQueryAlwaysEmpty ==
    (pc = "responded" /\ ZeroMagnitude(user_question)) => responses = <<>>

\* C3 as amended: a zero-magnitude query scores 0 against every entry; for
\* every threshold > 0 the result is empty; for threshold <= 0 the result is
\* not empty: it holds every candidate considered, each with score 0.
C3_ZeroQueryEmptyAboveZero ==
    (pc = "responded" /\ ZeroMagnitude(user_question)) =>
        /\ \A i \in 1..NumDocs : similarities[i] = 0
        /\ IF threshold > 0
           THEN responses = <<>>
           ELSE /\ responses # <<>>
                /\ Len(responses) = Len(top_indices)
                /\ \A j \in 1..Len(responses) :
                      /\ responses[j].score = 0
                      /\ responses[j].answer = answers[top_indices[j]]

\* C3 witness: the stop-word query with threshold 0 returns three candidates
C3_Witness ==
    /\ pc = "responded" /\ user_question = StopWordQuery
    /\ ZeroMagnitude(user_question)
    /\ threshold = 0 /\ top_n = DefaultTopN
    /\ Len(responses) = DefaultTopN

KeptIndices(idxs, sim, th) == SelectSeq(idxs, LAMBDA i : sim[i] >= th)

\* C6: the result is exactly the candidates whose score is >= threshold, in
\* their ranked order (empty when none qualifies), and no threshold at or
\* above the one used gives more results on the same similarity array.
C6_ThresholdFilter ==
    pc = "ranked" =>
        LET kept == KeptIndices(top_indices, similarities, threshold)
        IN  /\ Len(responses) = Len(kept)
            /\ \A j \in 1..Len(kept) :
                  /\ responses[j].answer = answers[kept[j]]
                  /\ responses[j].score = similarities[kept[j]]
            /\ \A th \in Thresholds : \A sorted \in ArgSorts(similarities) :
                  th >= threshold =>
                      Len(RankAndFilter(similarities, th, top_n, sorted, <<tone, 1>>))
                          <= Len(responses)

\* C6 witness: a candidate whose score equals the threshold is kept while
\* another candidate is dropped
C6_Witness ==
    /\ pc = "ranked"
    /\ \E j \in 1..Len(responses) : responses[j].score = threshold
    /\ Len(responses) < Len(top_indices)

\* C8: very_negative iff p <= -0.5, negative iff -0.5 < p < 0, neutral iff
\* 0 <= p <= 0.3, positive iff p > 0.3.
C8_ToneBuckets ==
    pc = "tone" =>
        /\ tone \in Tones
        /\ tone = "very_negative" <=> polarity <= -50
        /\ tone = "negative" <=> (-50 < polarity /\ polarity < 0)
        /\ tone = "neutral" <=> (0 <= polarity /\ polarity <= 30)
        /\ tone = "positive" <=> polarity > 30

\* C8 witness: the polarity -0.5 has been classified very_negative
C8_Witness == pc = "tone" /\ polarity = -50 /\ tone = "very_negative"

\* C9: a query that is entry i's own normalized question returns entry i
\* first, with score >= 0.99.
C9_SelfSimilarity ==
    \A i \in 1..NumDocs :
        (/\ pc = "responded"
         /\ user_question = preprocess_text(questions[i])
         /\ threshold = DefaultThreshold /\ top_n = DefaultTopN) =>
            /\ responses # <<>>
            /\ responses[1].answer = answers[i]
            /\ responses[1].score >= 99

\* C10: preprocess_text(preprocess_text(x)) = preprocess_text(x) for every text x.
C10_Idempotent == pc = "twice" => twice = once

\* C11: for every top_n >= 0 and every threshold the result has at most
\* top_n responses, at most one per catalog entry; top_n = 0 gives none.
C11_AtMostTopN ==
    pc = "ranked" =>
        /\ Len(responses) <= top_n
        /\ \A a, b \in 1..Len(responses) :
              a # b => responses[a].answer # responses[b].answer

\* the reply is a 'model is currently loading' notice
IsLoadingNotice(response) ==
    /\ ~response.raises /\ response.json = "object"
    /\ response.error = "is currently loading" /\ response.has_estimate

\* what C12 says of every call of translate, but for its last clause
TranslateBounded ==
    /\ Len(translator.replies) <= max_retries
    /\ translator.retry_count <= max_retries
    /\ translator.retry_count = Len(translator.sleeps)
    /\ \A i \in 1..Len(translator.sleeps) :
          /\ IsLoadingNotice(translator.replies[i])
          /\ translator.sleeps[i] = Min(translator.replies[i].estimated_time, 30)
          /\ translator.sleeps[i] <= 30
    /\ translator.pc = "loop" => Len(translator.replies) = translator.retry_count
    /\ translator.pc = "done" =>
          /\ ("translated_text" \in DOMAIN translator.result)
                # ("error" \in DOMAIN translator.result)
          /\ "translated_text" \in DOMAIN translator.result =>
                translator.result.translated_text # ""
    /\ translator.pc = "done" \/ ENABLED NextTranslate

\* C12 as claimed: translate sends at most max_retries requests, retries only
\* after a loading notice (sleeping min(estimated_time, 30)), ends with either
\* a non-empty translated_text or an error, and when all max_retries replies
\* are loading notices the error is 'Maximum retries reached'.
C12_TranslateAsClaimed ==
    /\ TranslateBounded
    /\ (/\ translator.pc = "done"
        /\ Len(translator.replies) = max_retries
        /\ \A i \in 1..max_retries : IsLoadingNotice(translator.replies[i])) =>
          translator.result = ErrorResult("Maximum retries reached")

\* C12 as amended: the same, the last clause for loading notices whose
\* estimated_time can be slept (it is not negative); a loading notice with a
\* negative estimated_time ends the call with the 'Translation failed' error.
C12_TranslateAmended ==
    /\ TranslateBounded
    /\ (/\ translator.pc = "done"
        /\ Len(translator.replies) = max_retries
        /\ \A i \in 1..max_retries :
              /\ IsLoadingNotice(translator.replies[i])
              /\ translator.replies[i].estimated_time >= 0) =>
          translator.result = ErrorResult("Maximum retries reached")
    /\ (/\ translator.pc = "done"
        /\ IsLoadingNotice(translator.replies[Len(translator.replies)])
        /\ translator.replies[Len(translator.replies)].estimated_time < 0) =>
          translator.result = ErrorResult("Translation failed")

\* C12 witness: max_retries loading notices, one of them asking for more than
\* 30 seconds, and the call ended with 'Maximum retries reached'
C12_Witness ==
    /\ translator.pc = "done"
    /\ translator.retry_count = max_retries
    /\ \E i \in 1..max_retries :
          translator.replies[i].estimated_time = 45 /\ translator.sleeps[i] = 30
    /\ translator.result = ErrorResult("Maximum retries reached")

\* the input lower-cased, when it is a single word
CommandWord(u) == IF Len(u) = 1 THEN Lower(u[1]) ELSE "none"

\* C13: in the chat loop an input other than 'quit' and 'history' (in any
\* case) logs exactly one record, with that input and the tone the reply was
\* composed with ('neutral' for the fallback); 'history' logs nothing and
\* leaves the history as it is; 'quit' logs nothing, and once the loop has
\* ended nothing is logged any more.
C13_ChatAppendsOnePerInput ==
    [][ /\ turns' = turns + 1 =>
             IF CommandWord(last_input') = "quit"
             THEN /\ logged' = logged
                  /\ conversation_history' = conversation_history
                  /\ ~running'
             ELSE IF CommandWord(last_input') = "history"
             THEN /\ logged' = logged
                  /\ conversation_history' = conversation_history
                  /\ running'
             ELSE /\ Len(logged') = Len(logged) + 1
                  /\ SubSeq(logged', 1, Len(logged)) = logged
                  /\ LET rec == logged'[Len(logged')]
                     IN  /\ rec.user_input = last_input'
                         /\ rec.sentiment = IF responses' = <<>> THEN "neutral"
                                            ELSE responses'[1].template[1]
                         /\ max_history > 0 =>
                               conversation_history'[Len(conversation_history')] = rec
        /\ (constructed = "ok" /\ ~running) =>
             /\ logged' = logged
             /\ conversation_history' = conversation_history
             /\ ~running'
      ]_vars

\* C13 witness: three inputs were read, one was answered and logged, one was
\* 'history', and the last one, 'Quit', ended the loop
C13_Witness ==
    /\ constructed = "ok" /\ ~running
    /\ turns = 3 /\ Len(logged) = 1
    /\ last_input = <<"Quit">>
    /\ max_history > 0 /\ conversation_history = logged

====
